---------------------------- MODULE Spec2Model ----------------------------
(* A model of the persona-driven ranking pipeline:                          *)
(*   src/utils/text_extractor.py  EnhancedTextExtractor                     *)
(*   src/utils/ranker.py          ContentRanker                             *)
(*   src/process_pdfs_enhanced.py the collection loop and its fallback      *)
(* Texts are TLA+ strings; the Python string operations the code uses are   *)
(* written out as operators on them.  Scores are exact rationals, kept      *)
(* as <<numerator, denominator>> pairs with a positive denominator.         *)
EXTENDS Integers, Sequences, FiniteSets, TLC

VARIABLES
    mode,        \* which entry point this behaviour exercises
    pc,          \* position inside that entry point
    ctx,         \* ScoringContext: [persona |-> role, job |-> task]
    has_input,   \* whether the collection has a challenge1b_input.json
    config,      \* config["documents"]: sequence of [filename, title, state, pdf]
    doc_idx,     \* index of the next document of the collection loop
    all_sections,\* the pooled sections (the argument of rank_sections)
    ranked,      \* ranked_sections, what rank_sections returned
    tfidf_ok,    \* whether the try block of rank_sections completed
    output,      \* the collection's challenge1b_output.json
    raised,      \* whether enhanced processing raised
    in_text,     \* argument text of the function under study
    in_other,    \* the second text of a comparison of two scores
    in_len,      \* argument max_length / max_pages_per_doc
    in_doc,      \* argument document_name
    in_pdf,      \* the pages of the document read: sequence of page texts
    result       \* what the calls of the function under study returned

vars == <<mode, pc, ctx, has_input, config, doc_idx, all_sections, ranked,
          tfidf_ok, output, raised, in_text, in_other, in_len, in_doc, in_pdf,
          result>>

-----------------------------------------------------------------------------
(* Python string operations                                                 *)

UpperStr == "ABCDEFGHIJKLMNOPQRSTUVWXYZ"
LowerStr == "abcdefghijklmnopqrstuvwxyz"
DigitStr == "0123456789"

CharsOf(s) == {SubSeq(s, i, i) : i \in 1..Len(s)}

UpperSet == CharsOf(UpperStr)
LowerSet == CharsOf(LowerStr)
DigitSet == CharsOf(DigitStr)
AlphaSet == UpperSet \cup LowerSet
\* \w of the re module, on the characters the model uses
WordSet  == AlphaSet \cup DigitSet \cup {"_"}
\* \s of the re module, and the characters str.strip() and str.split() drop
SpaceSet == {" ", "\t", "\n"}

At(s, i) == SubSeq(s, i, i)

\* s[a:] and s[:n] for 0 <= n
From(s, a) == SubSeq(s, a, Len(s))
Prefix(s, n) == SubSeq(s, 1, IF n < Len(s) THEN n ELSE Len(s))

ToLower == [c \in UpperSet |->
              LET i == CHOOSE k \in 1..26 : At(UpperStr, k) = c
              IN  At(LowerStr, i)]

LowerChar(c) == IF c \in UpperSet THEN ToLower[c] ELSE c

Min(a, b) == IF a <= b THEN a ELSE b
Max(a, b) == IF a >= b THEN a ELSE b

MinOf(S) == CHOOSE x \in S : \A y \in S : x <= y
MaxOf(S) == 0 - MinOf({0 - x : x \in S})
MinOr0(S) == IF S = {} THEN 0 ELSE MinOf(S)
MaxOr0(S) == IF S = {} THEN 0 ELSE MaxOf(S)

\* the elements of a set of integers, in increasing order
RECURSIVE AscendingFrom(_, _)
AscendingFrom(S, m) ==
    IF S = {m} THEN <<m>> ELSE <<m>> \o AscendingFrom(S \ {m}, MinOf(S \ {m}))

Ascending(S) == IF S = {} THEN <<>> ELSE AscendingFrom(S, MinOf(S))

\* str.lower(), halving the string so that long texts stay shallow
RECURSIVE Lower(_)
Lower(s) ==
    IF Len(s) = 0 THEN ""
    ELSE IF Len(s) = 1 THEN LowerChar(s)
    ELSE LET h == Len(s) \div 2
         IN  Lower(SubSeq(s, 1, h)) \o Lower(From(s, h + 1))

StartsWith(s, p) == Len(p) <= Len(s) /\ SubSeq(s, 1, Len(p)) = p
EndsWith(s, p) == Len(p) <= Len(s) /\ SubSeq(s, Len(s) - Len(p) + 1, Len(s)) = p

\* the positions (1-based) at which k occurs in s
Occurrences(s, k) ==
    {i \in 1..(Len(s) - Len(k) + 1) : SubSeq(s, i, i + Len(k) - 1) = k}

\* str.find (1-based); 0 when absent
Find(s, k) == MinOr0(Occurrences(s, k))

\* k in s
Contains(s, k) ==
    \E i \in 1..(Len(s) - Len(k) + 1) : SubSeq(s, i, i + Len(k) - 1) = k

\* str.rfind (1-based); 0 when absent
RFind(s, k) == MaxOr0(Occurrences(s, k))

\* the positions of s that hold a character outside cls
Outside(s, cls) == {i \in 1..Len(s) : At(s, i) \notin cls}

\* length of the run of characters of class cls that starts s
RunLen(s, cls) == MinOf(Outside(s, cls) \cup {Len(s) + 1}) - 1

\* length of the run of characters of class cls that ends s
RunLenBack(s, cls) == Len(s) - MaxOf(Outside(s, cls) \cup {0})

LStrip(s) == From(s, RunLen(s, SpaceSet) + 1)
RStrip(s) == SubSeq(s, 1, Len(s) - RunLenBack(s, SpaceSet))

\* str.strip()
Strip(s) == LStrip(RStrip(s))

\* str.split(sep): the pieces between non-overlapping occurrences, left to right
RECURSIVE SplitAt(_, _, _)
SplitAt(s, sep, i) ==
    IF i = 0 THEN <<s>>
    ELSE <<SubSeq(s, 1, i - 1)>>
         \o SplitAt(From(s, i + Len(sep)), sep, Find(From(s, i + Len(sep)), sep))

SplitOn(s, sep) == SplitAt(s, sep, Find(s, sep))

\* the maximal runs of characters of class cls, left to right (the string is
\* halved at a character outside cls, so that long texts stay shallow)
RECURSIVE RunsIn(_, _)
RECURSIVE RunsAround(_, _, _)

\* g: a position of s outside cls, or 0 when s has none
RunsAround(s, cls, g) ==
    IF g = 0 THEN (IF s = "" THEN <<>> ELSE <<s>>)
    ELSE RunsIn(SubSeq(s, 1, g - 1), cls) \o RunsIn(From(s, g + 1), cls)

\* the element of the set gaps nearest to mid (0 when gaps is empty)
Nearest(gaps, mid) ==
    IF \E i \in gaps : i <= mid THEN MaxOf({i \in gaps : i <= mid})
    ELSE MinOr0(gaps)

RunsIn(s, cls) == RunsAround(s, cls, Nearest(Outside(s, cls), (Len(s) + 1) \div 2))

\* str.split(): the maximal runs of non-whitespace
SplitWs(s) == RunsIn(s, CharsOf(s) \ SpaceSet)

\* the \w+ words of s
Words(s) == RunsIn(s, WordSet)

SeqSet(seq) == {seq[k] : k \in 1..Len(seq)}

WordsIn(s) == SeqSet(Words(s))

RECURSIVE Join(_, _)
Join(seq, sep) ==
    IF seq = <<>> THEN ""
    ELSE IF Len(seq) = 1 THEN seq[1]
    ELSE seq[1] \o sep \o Join(Tail(seq), sep)

AllIn(s, cls) == \A i \in 1..Len(s) : At(s, i) \in cls

\* re.sub(r'[^cls]', '', s): the characters of cls that s holds, in order
RECURSIVE Keep(_, _)
Keep(s, cls) ==
    IF Len(s) = 0 THEN ""
    ELSE IF Len(s) = 1 THEN (IF s \in cls THEN s ELSE "")
    ELSE LET h == Len(s) \div 2
         IN  Keep(SubSeq(s, 1, h), cls) \o Keep(From(s, h + 1), cls)

\* \b at the gap before position i (1-based) of s
Boundary(s, i) ==
    LET before == i > 1 /\ i - 1 <= Len(s) /\ At(s, i - 1) \in WordSet
        after  == i >= 1 /\ i <= Len(s) /\ At(s, i) \in WordSet
    IN  before # after

\* s * n
RECURSIVE Repeat(_, _)
Repeat(s, n) ==
    IF n <= 0 THEN ""
    ELSE IF n = 1 THEN s
    ELSE Repeat(s, n \div 2) \o Repeat(s, n - (n \div 2))

-----------------------------------------------------------------------------
(* The regular expressions of the re module that the code uses.  A pattern  *)
(* is a sequence of items; MatchEnds gives every position at which a match  *)
(* that starts at a position of P can end (positions are 1-based: p is the  *)
(* index of the next character to read).                                    *)

\* [cls]{lo,hi}, [cls]+, a|b|..., a literal, (?:sub)?, (?:sub){lo,hi},
\* (?:sub)*, \b and $; open marks a repetition without upper limit
Cls(cls, lo, hi) == [t |-> "cls", cls |-> cls, lo |-> lo, hi |-> hi, open |-> FALSE]
Plus(cls) == [t |-> "cls", cls |-> cls, lo |-> 1, hi |-> 1, open |-> TRUE]
Alt(alts) == [t |-> "alt", alts |-> alts]
Lit(w) == Alt({w})
Grp(sub, lo, hi) == [t |-> "grp", sub |-> sub, lo |-> lo, hi |-> hi, open |-> FALSE]
Opt(sub) == Grp(sub, 0, 1)
Star(sub) == [t |-> "grp", sub |-> sub, lo |-> 0, hi |-> 0, open |-> TRUE]
WordB == [t |-> "wb"]
Eol == [t |-> "eol"]

ClsEnds(s, item, p) ==
    {p + k : k \in item.lo..(IF item.open THEN RunLen(From(s, p), item.cls)
                             ELSE Min(item.hi, RunLen(From(s, p), item.cls)))}

AltEnds(s, item, p) ==
    {p + Len(w) : w \in {v \in item.alts : StartsWith(From(s, p), v)}}

RECURSIVE MatchEnds(_, _, _)
RECURSIVE GrpEnds(_, _, _, _)

\* the ends of the group after n repetitions are P: the ends after n
\* repetitions or more, up to item.hi
GrpEnds(s, item, P, n) ==
    IF P = {} THEN {}
    ELSE (IF n >= item.lo THEN P ELSE {})
         \cup (IF item.open \/ n < item.hi
               THEN GrpEnds(s, item, MatchEnds(s, item.sub, P), n + 1)
               ELSE {})

ItemEnds(s, item, P) ==
    CASE item.t = "cls" -> UNION {ClsEnds(s, item, p) : p \in P}
      [] item.t = "alt" -> UNION {AltEnds(s, item, p) : p \in P}
      [] item.t = "grp" -> GrpEnds(s, item, P, 0)
      [] item.t = "wb" -> {p \in P : Boundary(s, p)}
      [] OTHER -> {p \in P : p = Len(s) + 1 \/ (p = Len(s) /\ At(s, p) = "\n")}

MatchEnds(s, pat, P) ==
    IF pat = <<>> \/ P = {} THEN P
    ELSE MatchEnds(s, Tail(pat), ItemEnds(s, Head(pat), P))

\* re.match(pat, s)
ReMatch(pat, s) == MatchEnds(s, pat, {1}) # {}

\* re.search from position a: <<start, end>> of the leftmost match, the
\* longest one at that start; <<0, 0>> when there is none
MatchAt(pat, s, i) == IF i = 0 THEN <<0, 0>> ELSE <<i, MaxOf(MatchEnds(s, pat, {i}))>>

ReSearch(pat, s, a) ==
    MatchAt(pat, s, MinOr0({i \in a..(Len(s) + 1) : MatchEnds(s, pat, {i}) # {}}))

\* re.findall(pat, s) for a pattern without capturing groups that matches
\* no empty string; m is the match re.search finds next
RECURSIVE FindAllNext(_, _, _)
FindAllNext(pat, s, m) ==
    IF m[1] = 0 THEN <<>>
    ELSE <<SubSeq(s, m[1], m[2] - 1)>> \o FindAllNext(pat, s, ReSearch(pat, s, m[2]))

ReFindAll(pat, s) == FindAllNext(pat, s, ReSearch(pat, s, 1))

\* re.sub(r'^[cls]+', '', s)
StripLead(s, cls) == From(s, RunLen(s, cls) + 1)

-----------------------------------------------------------------------------
(* EnhancedTextExtractor                                                    *)

\* stands for the bullet U+2022, which a TLA+ string cannot hold (the private
\* use bullets U+F0B7 and U+F0A7 are outside the model's characters)
Bullet == "~"

FoodWords == {"Salad", "Soup", "Pasta", "Pizza", "Curry", "Bowl", "Dish", "Recipe"}
CookWords == {"Grilled", "Baked", "Roasted", "Fresh", "Steamed",
              "Panfried", "Pan-fried", "Pan fried"}

\* self.section_patterns, in order
section_patterns ==
    << <<Cls(UpperSet, 1, 1), Cls(AlphaSet \cup SpaceSet \cup {"&", "'", "-"}, 3, 50),
         Opt(<<Plus(SpaceSet), Alt(FoodWords)>>), Eol>>,
       <<Plus(DigitSet), Lit("."), Plus(SpaceSet), Cls(UpperSet, 1, 1),
         Cls(AlphaSet \cup SpaceSet \cup {"-", "&"}, 5, 60), Eol>>,
       <<Cls(UpperSet \cup SpaceSet \cup {"-", "&"}, 8, 50), Eol>>,
       <<Cls(UpperSet, 1, 1), Cls(AlphaSet \cup SpaceSet \cup {"-", "&"}, 10, 60), Eol>>,
       <<Lit(Bullet), Plus(SpaceSet), Cls(UpperSet, 1, 1),
         Cls(AlphaSet \cup SpaceSet \cup {"-", "&"}, 5, 50), Eol>>,
       <<Alt({"Introduction", "Overview", "Summary", "Conclusion"})>>,
       <<Alt(CookWords), Plus(SpaceSet), Cls(UpperSet, 1, 1),
         Cls(AlphaSet \cup SpaceSet, 5, 40), Eol>>,
       <<Cls(UpperSet, 1, 1), Plus(AlphaSet \cup SpaceSet \cup {"&", "'", "-"}),
         Opt(<<Plus(SpaceSet), Lit("with"), Plus(SpaceSet),
               Cls(UpperSet, 1, 1), Plus(AlphaSet \cup SpaceSet \cup {"&"})>>),
         Eol>> >>

\* the characters re.sub(r'^[\s•\-\*\d\.\)\(]+', '', line) drops
HeaderLead == SpaceSet \cup DigitSet \cup {Bullet, "-", "*", ".", ")", "("}

BodyStarts == {"ingredients", "instructions", "directions", "method", "serves",
               "prep time"}
Units == {"cup", "tablespoon", "teaspoon", "pound", "ounce"}
StopWords == {"the", "and", "or", "but", "with", "for", "in", "on", "at"}

\* re.match(r'^\d+\s+(cups?|tablespoons?|teaspoons?|pounds?|ounces?)', lower)
quantity_pattern == <<Plus(DigitSet), Plus(SpaceSet), Alt(Units)>>

\* the title-like heuristics of is_section_header, for clean_line, its
\* words and its lower case
title_like(clean_line, words, lower) ==
    /\ 3 <= Len(clean_line) /\ Len(clean_line) <= 80
    /\ Len(words) >= 2
    /\ ~ \E b \in BodyStarts : StartsWith(lower, b)
    /\ ~ ReMatch(quantity_pattern, lower)
    /\ At(words[1], 1) \in UpperSet
    /\ ~ EndsWith(clean_line, ".")
    /\ ~ \E k \in 1..2 : Lower(words[k]) \in StopWords

\* is_section_header from clean_line on
header_clean_line(clean_line) ==
    IF clean_line = "" THEN FALSE
    ELSE \/ \E k \in 1..Len(section_patterns) :
              ReMatch(section_patterns[k], clean_line)
         \/ title_like(clean_line, SplitWs(clean_line), Lower(clean_line))

is_section_header(line) ==
    IF line = "" \/ Len(line) < 3 THEN FALSE
    ELSE header_clean_line(Strip(StripLead(line, HeaderLead)))

\* lines[a:b] of Python, 0-based a, for 0 <= a
Slice(seq, a, b) == SubSeq(seq, a + 1, Min(b, Len(seq)))

\* content_lines = lines[i:i+10] for the header at 0-based line i
ContentWindow == 10

\* variant: the header line and the ContentWindow lines behind it
lines_after_header(lines, i) == Slice(lines, i, i + ContentWindow + 1)

content_lines(lines, i) == Slice(lines, i, i + ContentWindow)

\* the sections of the header lines: heads holds the numbers (from 1) of the
\* lines that are headers, in order
sections_at(lines, heads) ==
    [k \in 1..Len(heads) |->
        [title |-> Strip(lines[heads[k]]),
         content |-> Join(content_lines(lines, heads[k] - 1), "\n"),
         line_number |-> heads[k]]]

header_lines(lines) ==
    Ascending({i \in 1..Len(lines) : is_section_header(Strip(lines[i]))})

detect_lines(lines) == sections_at(lines, header_lines(lines))

detect_sections(text) == detect_lines(SplitOn(text, "\n"))

\* the entries of the pages kept: kept holds their numbers (from 1), in order
pages_at(pdf, kept) ==
    [k \in 1..Len(kept) |->
        [page_number |-> kept[k],
         text |-> pdf[kept[k]],
         sections |-> detect_sections(pdf[kept[k]]),
         word_count |-> Len(SplitWs(pdf[kept[k]]))]]

\* the pages of the opened document that hold text, in page order
extract_text_with_sections(pdf) ==
    pages_at(pdf, Ascending({n \in 1..Len(pdf) : Strip(pdf[n]) # ""}))

CapWord == <<Cls(UpperSet, 1, 1), Plus(LowerSet)>>
SpaceCapWord == <<Plus(SpaceSet)>> \o CapWord

\* food_patterns of generate_section_title, in order
title_food_patterns ==
    << <<WordB>> \o CapWord \o
         <<Star(SpaceCapWord), Plus(SpaceSet), Alt(FoodWords), WordB>>,
       <<WordB, Alt(CookWords), Plus(SpaceSet)>> \o CapWord \o
         <<Star(SpaceCapWord), WordB>>,
       <<WordB>> \o CapWord \o
         <<Plus(SpaceSet), Alt({"with", "and"}), Plus(SpaceSet)>>
         \o CapWord \o <<Star(SpaceCapWord), WordB>> >>

cap_pattern == <<WordB>> \o CapWord \o <<Grp(SpaceCapWord, 1, 3), WordB>>

\* the characters re.sub(r'^[\s•\-\*\d\.\)]+', '', line) drops
TitleLead == SpaceSet \cup DigitSet \cup {Bullet, "-", "*", ".", ")"}
\* the characters re.sub(r'[^\w\s\-&\']', '', clean_title) keeps
TitleKeep == WordSet \cup SpaceSet \cup {"-", "&", "'"}

clean_title(line) == Strip(Keep(StripLead(line, TitleLead), TitleKeep))

\* whether clean_title of a line is returned as the title
good_clean_title(clean) ==
    /\ Len(SplitWs(clean)) >= 2
    /\ Len(clean) <= 60
    /\ ~ \E b \in {"ingredients", "instructions", "directions"} :
           StartsWith(Lower(clean), b)

\* whether a stripped line of the first five is returned as the title
good_title_line(line) ==
    /\ line # "" /\ 3 <= Len(line) /\ Len(line) <= 80
    /\ good_clean_title(clean_title(line))

\* last rung: the first six words longer than two characters
title_of_words(words) ==
    IF words = <<>> THEN "Content Section"
    ELSE IF Len(Join(words, " ")) > 50 THEN Prefix(Join(words, " "), 50) \o "..."
    ELSE Join(words, " ")

\* fourth rung: the first match of cap_pattern that passes the filter
title_of_caps(text, caps) ==
    IF \E k \in 1..Len(caps) :
          /\ Len(SplitWs(caps[k])) >= 2 /\ Len(caps[k]) <= 50
          /\ Lower(caps[k]) \notin {"The United", "South Of", "North America"}
    THEN caps[MinOf({k \in 1..Len(caps) :
          /\ Len(SplitWs(caps[k])) >= 2 /\ Len(caps[k]) <= 50
          /\ Lower(caps[k]) \notin {"The United", "South Of", "North America"}})]
    ELSE title_of_words(Slice(SelectSeq(SplitWs(text), LAMBDA w : Len(w) > 2), 0, 6))

\* second and third rung: the first of food_patterns that matches; foods
\* holds the first match of each pattern
title_of_foods(text, foods) ==
    IF \E k \in 1..Len(foods) : foods[k][1] # 0
    THEN Prefix(ReFindAll(title_food_patterns[MinOf({k \in 1..Len(foods) :
                    foods[k][1] # 0})], text)[1], 60)
    ELSE title_of_caps(text, ReFindAll(cap_pattern, text))

\* first rung: the first good line of lines[:5]
title_of_lines(text, lines) ==
    IF \E i \in 1..Len(lines) : good_title_line(Strip(lines[i]))
    THEN clean_title(Strip(lines[MinOf({i \in 1..Len(lines) :
                                         good_title_line(Strip(lines[i]))})]))
    ELSE title_of_foods(text, [k \in 1..Len(title_food_patterns) |->
                                  ReSearch(title_food_patterns[k], text, 1)])

generate_section_title(text) ==
    title_of_lines(text, Slice(SplitOn(Strip(text), "\n"), 0, 5))

MaxPagesPerDoc == 5

\* variant: the page content appended for every page, after its detected
\* sections
detected_and_page_content(page) ==
    [k \in 1..Len(page.sections) |->
        [page_number |-> page.page_number,
         text |-> page.sections[k].content,
         section_title |-> page.sections[k].title,
         source |-> "detected_section"]]
    \o <<[page_number |-> page.page_number,
          text |-> page.text,
          section_title |-> generate_section_title(page.text),
          source |-> "page_content"]>>

\* the sections one page gives to the ranking
page_sections(page) ==
    IF page.sections # <<>>
    THEN [k \in 1..Len(page.sections) |->
            [page_number |-> page.page_number,
             text |-> page.sections[k].content,
             section_title |-> page.sections[k].title,
             source |-> "detected_section"]]
    ELSE <<[page_number |-> page.page_number,
            text |-> page.text,
            section_title |-> generate_section_title(page.text),
            source |-> "page_content"]>>

\* the loop over limited_pages
RECURSIVE sections_of_pages(_)
sections_of_pages(pages) ==
    IF pages = <<>> THEN <<>>
    ELSE page_sections(Head(pages)) \o sections_of_pages(Tail(pages))

\* variant: the limit cuts the document before the pages without text are
\* left out
sections_of_leading_pages(pdf, max_pages_per_doc) ==
    sections_of_pages(extract_text_with_sections(Slice(pdf, 0, max_pages_per_doc)))

\* limited_pages = pages[:max_pages_per_doc]
get_page_sections_for_ranking(pdf, max_pages_per_doc) ==
    sections_of_pages(Slice(extract_text_with_sections(pdf), 0, max_pages_per_doc))

-----------------------------------------------------------------------------
(* Exact rationals for the float scores: <<n, d>> with d > 0, in lowest     *)
(* terms                                                                    *)

RECURSIVE Gcd(_, _)
Gcd(a, b) == IF b = 0 THEN a ELSE Gcd(b, a % b)

Abs(x) == IF x < 0 THEN 0 - x ELSE x

Rat(n, d) == LET g == Gcd(Abs(n), d) IN <<n \div g, d \div g>>

Zero == <<0, 1>>
RAdd(a, b) == Rat(a[1] * b[2] + b[1] * a[2], a[2] * b[2])
RMul(a, b) == Rat(a[1] * b[1], a[2] * b[2])
RGeq(a, b) == a[1] * b[2] >= b[1] * a[2]
RGt(a, b) == a[1] * b[2] > b[1] * a[2]

-----------------------------------------------------------------------------
(* ContentRanker: keyword tables                                            *)

NoKeywords == [high |-> {}, medium |-> {}, low |-> {}]

PersonaTable ==
    [role \in {"Travel Planner", "HR Professional", "Food Contractor",
               "PhD Researcher", "Investment Analyst", "Student"} |->
       CASE role = "Travel Planner" ->
              [high |-> {"itinerary", "accommodation", "transportation",
                         "attractions", "budget", "booking", "schedule"},
               medium |-> {"travel", "trip", "vacation", "hotel", "restaurant",
                           "activity", "tour", "destination"},
               low |-> {"guide", "tips", "culture", "history", "food", "shopping"}]
         [] role = "HR Professional" ->
              [high |-> {"onboarding", "compliance", "workflow", "forms",
                         "signatures", "employee", "digital"},
               medium |-> {"management", "process", "document", "training",
                           "policy", "procedure"},
               low |-> {"create", "edit", "share", "convert", "export"}]
         [] role = "Food Contractor" ->
              [high |-> {"menu", "catering", "buffet", "corporate", "vegetarian",
                         "gluten-free", "dinner", "recipe"},
               medium |-> {"meal", "ingredient", "cooking", "preparation",
                           "serving", "nutrition"},
               low |-> {"breakfast", "lunch", "snack", "appetizer", "dessert"}]
         [] role = "PhD Researcher" ->
              [high |-> {"methodology", "dataset", "benchmark", "evaluation",
                         "literature", "review", "analysis"},
               medium |-> {"research", "study", "experiment", "result",
                           "conclusion", "hypothesis"},
               low |-> {"paper", "journal", "citation", "reference", "abstract"}]
         [] role = "Investment Analyst" ->
              [high |-> {"revenue", "profit", "investment", "market", "financial",
                         "analysis", "trend"},
               medium |-> {"company", "performance", "strategy", "growth", "risk",
                           "portfolio"},
               low |-> {"report", "quarter", "annual", "earnings", "stock"}]
         [] OTHER ->
              [high |-> {"exam", "study", "concept", "mechanism", "theory",
                         "practice", "preparation"},
               medium |-> {"chapter", "topic", "subject", "learning", "understand",
                           "knowledge"},
               low |-> {"textbook", "course", "class", "assignment", "homework"}]]

\* persona_keywords.get(self.persona_role, {'high': [], 'medium': [], 'low': []})
get_enhanced_persona_keywords(c) ==
    IF c.persona \in DOMAIN PersonaTable THEN PersonaTable[c.persona]
    ELSE NoKeywords

ActionStems == {"prepare", "create", "analyze", "identify", "summarize",
                "review", "plan", "develop", "design", "build"}

QuoteSet == {"\"", "'"}

\* re.findall(r'["\']([^"\']+)["\']', s): scanning left to right, an opening
\* quote, a non-empty run without quotes, a closing quote; the run is kept
RECURSIVE quoted_terms(_)
\* rest follows an opening quote and starts with a run of n other characters
quoted_run(rest, n) ==
    IF n >= 1 /\ n < Len(rest)
    THEN {SubSeq(rest, 1, n)} \cup quoted_terms(From(rest, n + 2))
    ELSE quoted_terms(rest)

quoted_rest(rest) == quoted_run(rest, RunLen(rest, CharsOf(rest) \ QuoteSet))

quoted_terms(s) ==
    IF \E i \in 1..Len(s) : At(s, i) \in QuoteSet
    THEN quoted_rest(From(s, MinOf({i \in 1..Len(s) : At(s, i) \in QuoteSet}) + 1))
    ELSE {}

\* re.findall(r'\b(?:prepare|...|build)\w*\b', job_lower): the words that
\* start with an action stem
action_words(job_lower) ==
    {w \in WordsIn(job_lower) : \E stem \in ActionStems : StartsWith(w, stem)}

\* re.findall(r'\b[a-zA-Z]{4,}\b', job_lower): the words of four letters or
\* more that hold letters only
domain_terms(job_lower) ==
    {w \in WordsIn(job_lower) : Len(w) >= 4 /\ AllIn(w, AlphaSet)}

job_keywords_of(job_description, job_lower) ==
    [high |-> action_words(job_lower) \cup quoted_terms(job_description),
     medium |-> {term \in domain_terms(job_lower) : Len(term) > 4}]

get_enhanced_job_keywords(c) == job_keywords_of(c.job, Lower(c.job))

\* sum(1 for kw in kws if kw in text_lower)
Matches(kws, text_lower) == Cardinality({kw \in kws : Contains(text_lower, kw)})

\* any(term in text for term in terms)
AnyIn(terms, text) == \E term \in terms : Contains(text, term)

B(cond, n) == IF cond THEN n ELSE 0

AcademicRoles == {"researcher", "phd", "student", "academic"}
AcademicTerms == {"methodology", "dataset", "benchmark", "evaluation",
                  "literature", "study", "research", "analysis", "experiment"}
BusinessRoles == {"analyst", "investment", "business"}
BusinessTerms == {"revenue", "profit", "market", "financial", "growth",
                  "strategy", "investment", "performance"}
TravelTerms == {"hotel", "restaurant", "attraction", "tour", "booking",
                "itinerary", "destination"}
VegetarianTerms == {"vegetarian", "vegan", "plant-based", "tofu", "beans",
                    "lentils", "quinoa", "vegetables"}
MeatTerms == {"beef", "chicken", "pork", "lamb", "turkey", "fish", "salmon",
              "tuna", "meat", "poultry"}
GlutenFreeTerms == {"gluten-free", "gluten free", "rice", "corn", "quinoa"}
GlutenTerms == {"wheat", "flour", "bread", "pasta", "barley", "rye"}
BuffetTerms == {"buffet", "serving", "large batch", "crowd", "party", "catering"}

persona_points(text_lower, kw) ==
    Matches(kw.high, text_lower) * 3 * 3
    + Matches(kw.medium, text_lower) * 2 * 2
    + Matches(kw.low, text_lower)

persona_score(text_lower, c) ==
    persona_points(text_lower, get_enhanced_persona_keywords(c))

job_points(text_lower, kw) ==
    Matches(kw.high, text_lower) * 5 * 5
    + Matches(kw.medium, text_lower) * 2 * 2

job_score(text_lower, c) == job_points(text_lower, get_enhanced_job_keywords(c))

\* job and role are job_description.lower() and persona_role.lower()
bonus_points(text_lower, doc_lower, job, role) ==
        B(Contains(job, "dinner") /\ Contains(doc_lower, "dinner"), 5)
        + B(Contains(job, "breakfast") /\ Contains(doc_lower, "breakfast"), 5)
        + B(Contains(job, "lunch") /\ Contains(doc_lower, "lunch"), 5)
        + B(AnyIn(AcademicRoles, role), Matches(AcademicTerms, text_lower) * 2)
        + B(AnyIn(BusinessRoles, role), Matches(BusinessTerms, text_lower) * 2)
        + B(Contains(role, "travel"), Matches(TravelTerms, text_lower) * 2)
        + B(Contains(job, "vegetarian") /\ AnyIn(VegetarianTerms, text_lower), 4)
        + B(Contains(job, "gluten-free") /\ AnyIn(GlutenFreeTerms, text_lower), 3)
        + B(Contains(job, "buffet") /\ AnyIn(BuffetTerms, text_lower), 2)

context_bonus(text_lower, doc_lower, c) ==
    bonus_points(text_lower, doc_lower, Lower(c.job), Lower(c.persona))

penalty_points(text_lower, doc_lower, job) ==
    0 - B(Contains(job, "vegetarian") /\ AnyIn(MeatTerms, text_lower), 8)
      - B(Contains(job, "gluten-free") /\ AnyIn(GlutenTerms, text_lower), 4)
      - B(Contains(job, "dinner") /\ Contains(doc_lower, "breakfast"), 3)
      - B(Contains(job, "corporate") /\ Contains(text_lower, "dessert"), 1)

penalty(text_lower, doc_lower, c) ==
    penalty_points(text_lower, doc_lower, Lower(c.job))

\* variant: the context bonus added at full weight, like the penalty
bonus_not_weighted10(text_lower, doc_lower, c) ==
    persona_score(text_lower, c) * 3 + job_score(text_lower, c) * 5
    + context_bonus(text_lower, doc_lower, c) * 10
    + penalty(text_lower, doc_lower, c) * 10

\* ten times persona_score * 0.3 + job_score * 0.5 + context_bonus * 0.2 + penalty
weighted_lower10(text_lower, doc_lower, c) ==
    persona_score(text_lower, c) * 3 + job_score(text_lower, c) * 5
    + context_bonus(text_lower, doc_lower, c) * 2
    + penalty(text_lower, doc_lower, c) * 10

weighted_sum10(text, document_name, c) ==
    weighted_lower10(Lower(text), Lower(document_name), c)

\* a hundred times text_length = max(len(text.split()) / 100, 1)
text_length100(text) == Max(Len(SplitWs(text)), 100)

\* variant: return total_score as it is
NotClamped(x) == x

\* max(x, 0)
ClampNonNegative(x) == Max(x, 0)

\* total_score = weighted sum / text_length; return max(total_score, 0)
\* as the rational <<numerator, denominator>>
calculate_enhanced_relevance_score(text, document_name, c) ==
    Rat(ClampNonNegative(weighted_sum10(text, document_name, c) * 10),
        text_length100(text))

-----------------------------------------------------------------------------
(* ContentRanker.rank_sections and extract_refined_subsection                *)

\* list.sort(key=..., reverse=True) and sorted(..., reverse=True): descending,
\* and stable (an element goes behind every element whose key is not smaller)
\* (the key is the field score of the element)
RECURSIVE InsertDesc(_, _)
RECURSIVE InsertAsc(_, _)
RECURSIVE InsertDescFront(_, _)

\* variant: the sort without reverse=True
InsertAsc(sorted, x) ==
    IF sorted = <<>> THEN <<x>>
    ELSE IF RGeq(x.score, Head(sorted).score)
    THEN <<Head(sorted)>> \o InsertAsc(Tail(sorted), x)
    ELSE <<x>> \o sorted

\* variant: an ascending sort that is then reversed, which turns ties around
InsertDescFront(sorted, x) ==
    IF sorted = <<>> THEN <<x>>
    ELSE IF RGt(Head(sorted).score, x.score)
    THEN <<Head(sorted)>> \o InsertDescFront(Tail(sorted), x)
    ELSE <<x>> \o sorted

InsertDesc(sorted, x) ==
    IF sorted = <<>> THEN <<x>>
    ELSE IF RGeq(Head(sorted).score, x.score)
    THEN <<Head(sorted)>> \o InsertDesc(Tail(sorted), x)
    ELSE <<x>> \o sorted

RECURSIVE SortInto(_, _)
SortInto(sorted, seq) ==
    IF seq = <<>> THEN sorted
    ELSE SortInto(InsertDesc(sorted, Head(seq)), Tail(seq))

SortedReverse(seq) == SortInto(<<>>, seq)

TfidfWeight == <<4, 10>>
KeywordWeight == <<6, 10>>
TitleBonus == <<1, 10>>

\* the +0.1 of a title of two words or more that does not start with 'Content'
title_bonus(section_title) ==
    IF Len(SplitWs(section_title)) >= 2 /\ ~ StartsWith(section_title, "Content")
    THEN TitleBonus ELSE Zero

\* section['relevance_score'] for the similarity tfidf_score and the result
\* keyword_score of calculate_enhanced_relevance_score
relevance_score(section, tfidf_score, keyword_score) ==
    RAdd(RAdd(RMul(tfidf_score, TfidfWeight), RMul(keyword_score, KeywordWeight)),
         title_bonus(section.section_title))

\* variant: enumerate(ranked_sections) without the start, ranks from 0
importance_rank_from_zero(k) == k - 1

\* the rank enumerate(ranked_sections, 1) gives the k-th section (k from 1)
importance_rank_at(k) == k

\* variant: the similarities start from ones instead of zeros
np_ones(n) == [i \in 1..n |-> <<1, 1>>]

\* tfidf_similarities = np.zeros(len(document_sections)), the value the
\* except clause leaves in place
np_zeros(n) == [i \in 1..n |-> Zero]

\* keyword_score of every section, in input order
keyword_scores(document_sections, c) ==
    [i \in 1..Len(document_sections) |->
        calculate_enhanced_relevance_score(document_sections[i].text,
                                           document_sections[i].document, c)]

\* the loop that scores and the sort: the input positions with their
\* relevance_score, in sorted order
scored_and_sorted(document_sections, tfidf_similarities, kw) ==
    LET n == Len(document_sections)
        tfidf_score(i) == IF i <= Len(tfidf_similarities)
                          THEN tfidf_similarities[i] ELSE Zero
    IN  SortedReverse([i \in 1..n |->
            [idx |-> i,
             score |-> relevance_score(document_sections[i], tfidf_score(i), kw[i])]])

\* variant: the scoring loop writes the lower-cased text back into the
\* section
ranked_with_lowered_text(document_sections, order) ==
    [k \in 1..Len(order) |->
        [relevance_score |-> order[k].score,
         importance_rank |-> importance_rank_at(k),
         text |-> Lower(document_sections[order[k].idx].text)]
        @@ document_sections[order[k].idx]]

\* rank_sections from the keyword scores kw on: the input dicts in sorted
\* order, each with relevance_score and importance_rank set
ranked_in(document_sections, order) ==
    [k \in 1..Len(order) |->
        [relevance_score |-> order[k].score,
         importance_rank |-> importance_rank_at(k)]
        @@ document_sections[order[k].idx]]

ranked_from(document_sections, tfidf_similarities, kw) ==
    IF document_sections = <<>> THEN <<>>
    ELSE ranked_in(document_sections,
                   scored_and_sorted(document_sections, tfidf_similarities, kw))

rank_sections(document_sections, tfidf_similarities, c) ==
    ranked_from(document_sections, tfidf_similarities,
                keyword_scores(document_sections, c))

\* the caller's list after rank_sections returned ranked_sections: its dicts
\* were updated in place
sections_after_rank(document_sections, order) ==
    [i \in 1..Len(document_sections) |->
        ranked_in(document_sections, order)[CHOOSE k \in 1..Len(order) :
                                              order[k].idx = i]]

MinParagraphLen == 30
MinRemaining == 100

\* paragraphs = [p.strip() for p in text.split(sep) if p.strip()]
stripped_pieces(pieces) ==
    SelectSeq([k \in 1..Len(pieces) |-> Strip(pieces[k])], LAMBDA p : p # "")

paragraphs_of(text, sep) == stripped_pieces(SplitOn(text, sep))

\* the largest power of two that is at most n
RECURSIVE FloorPow2(_)
FloorPow2(n) == IF n < 2 THEN 1 ELSE 2 * FloorPow2(n \div 2)

\* remaining * 0.7 in double arithmetic falls short of the whole number
\* 7 * remaining / 10: the double 0.7 is 0.4 * 2^-53 less than 7/10, and for
\* remaining = 10 * m the product is rounded down to the double below 7 * m
\* when 4 * m is more than the largest power of two within 7 * m
seventy_rounds_below(remaining) ==
    /\ remaining > 0 /\ remaining % 10 = 0
    /\ 4 * (remaining \div 10) > FloorPow2(7 * (remaining \div 10))

\* last_sentence > remaining * 0.7, the product a double
beyond_seventy_percent(last_sentence, remaining) ==
    \/ last_sentence * 10 > remaining * 7
    \/ last_sentence * 10 = remaining * 7 /\ seventy_rounds_below(remaining)

\* partial = paragraph[:remaining]; last_sentence = partial.rfind('.')
cut_partial(partial, last_sentence, remaining) ==
    IF beyond_seventy_percent(last_sentence, remaining)
    THEN Prefix(partial, last_sentence + 1)
    ELSE partial \o "..."

cut_at_sentence(partial, remaining) ==
    cut_partial(partial, RFind(partial, ".") - 1, remaining)

\* variant: the overflowing paragraph appended whole
paragraph_not_cut(paragraph, remaining) == paragraph

\* the part of the overflowing paragraph that is appended
partial_paragraph(paragraph, remaining) ==
    cut_at_sentence(Prefix(paragraph, remaining), remaining)

\* the loop over best_paragraphs, from result_text
RECURSIVE assemble(_, _, _)
\* variant: the loop without its break, it goes on to the paragraphs behind
\* the one that does not fit
add_paragraph_and_go_on(best_paragraphs, result_text, max_length, paragraph, remaining) ==
    assemble(Tail(best_paragraphs),
             IF Len(result_text) + Len(paragraph) <= max_length
             THEN result_text \o paragraph \o "\n\n"
             ELSE IF remaining > MinRemaining
             THEN result_text \o partial_paragraph(paragraph, remaining)
             ELSE result_text,
             max_length)

\* one turn of the loop, for the paragraph and remaining = max_length -
\* len(result_text)
add_paragraph(best_paragraphs, result_text, max_length, paragraph, remaining) ==
    IF Len(result_text) + Len(paragraph) <= max_length
    THEN assemble(Tail(best_paragraphs), result_text \o paragraph \o "\n\n",
                  max_length)
    ELSE IF remaining > MinRemaining
    THEN result_text \o partial_paragraph(paragraph, remaining)
    ELSE result_text

assemble(best_paragraphs, result_text, max_length) ==
    IF best_paragraphs = <<>> THEN result_text
    ELSE add_paragraph(best_paragraphs, result_text, max_length,
                       Head(best_paragraphs).paragraph,
                       max_length - Len(result_text))

\* paragraphs: split on blank lines, and on line ends when that gives nothing
split_paragraphs(text, by_blank) ==
    IF by_blank = <<>> THEN paragraphs_of(text, "\n") ELSE by_blank

\* the paragraphs longer than MinParagraphLen, each with its score
scored_paragraphs(kept, c) ==
    [k \in 1..Len(kept) |->
        [score |-> calculate_enhanced_relevance_score(kept[k], "", c),
         paragraph |-> kept[k]]]

\* best_paragraphs after its sort
best_paragraphs_of(text, c) ==
    SortedReverse(scored_paragraphs(
        SelectSeq(split_paragraphs(text, paragraphs_of(text, "\n\n")),
                  LAMBDA p : Len(p) > MinParagraphLen), c))

\* return result_text.strip() or text[:max_length] + "..."
stripped_or_prefix(stripped, text, max_length) ==
    IF stripped # "" THEN stripped ELSE Prefix(text, max_length) \o "..."

\* variant: without the early return for a text that fits
always_select_paragraphs(text, max_length, c) ==
    stripped_or_prefix(Strip(assemble(best_paragraphs_of(text, c), "", max_length)),
                       text, max_length)

extract_refined_subsection(text, max_length, c) ==
    IF Len(text) <= max_length THEN Strip(text)
    ELSE stripped_or_prefix(Strip(assemble(best_paragraphs_of(text, c), "",
                                           max_length)), text, max_length)

-----------------------------------------------------------------------------
(* process_pdfs_enhanced.py: one collection                                 *)

MaxDocs == 2

\* the PDFs a collection directory may hold: the texts of their pages
PdfFiles ==
    [f \in {"breakfast.pdf", "dinner.pdf", "notes.pdf"} |->
       CASE f = "breakfast.pdf" ->
              <<"Scrambled Eggs\nQuick and easy breakfast.">>
         [] f = "dinner.pdf" ->
              <<"Grilled Salmon with Vegetables\nA vegetarian-friendly dinner option.">>
         [] OTHER ->
              <<"", "mix well.\nadd salt.",
                "Tofu Bowl\nserve warm.\nRice Bowl\nserve cold.">>]

PdfTitles ==
    [f \in DOMAIN PdfFiles |->
       CASE f = "breakfast.pdf" -> "Breakfast Ideas"
         [] f = "dinner.pdf" -> "Dinner Party Menu"
         [] OTHER -> "Kitchen Notes"]

\* "ok": the file exists and is read; "missing": os.path.exists is false;
\* "raises": the file exists and reading it raises
DocStates == {"ok", "missing", "raises"}

DocConfigs ==
    {[filename |-> f, title |-> PdfTitles[f], state |-> st, pdf |-> PdfFiles[f]] :
        f \in DOMAIN PdfFiles, st \in DocStates}

\* config["documents"]: up to MaxDocs documents, no file listed twice
Configs ==
    UNION {{cf \in [1..n -> DocConfigs] :
              \A i, j \in 1..n : cf[i].filename = cf[j].filename => i = j} :
           n \in 0..MaxDocs}

PipelineContexts ==
    {[persona |-> "Food Contractor", job |-> "Prepare a vegetarian dinner menu"],
     [persona |-> "Travel Planner", job |-> "Plan a trip"]}

\* the cosine similarities the vectorizer may give a section: TF-IDF
\* vectors have no negative entry, so a cosine lies between 0 and 1
TfidfValues == {Zero, <<1, 2>>, <<1, 1>>}

NoOutput == [written |-> FALSE, by |-> "none"]

Idle == "-"

IdleInputs ==
    /\ in_text = Idle /\ in_other = Idle /\ in_len = 0 /\ in_doc = Idle
    /\ in_pdf = <<>> /\ result = Idle

IdlePipeline ==
    /\ has_input = FALSE /\ config = <<>> /\ doc_idx = 0 /\ output = NoOutput
    /\ raised = FALSE

InitPipeline ==
    /\ mode = "pipeline" /\ pc = "start"
    /\ ctx \in PipelineContexts
    /\ has_input \in BOOLEAN
    /\ config \in Configs
    /\ doc_idx = 1
    /\ all_sections = <<>> /\ ranked = <<>> /\ tfidf_ok = FALSE
    /\ output = NoOutput /\ raised = FALSE
    /\ IdleInputs

inputs == <<ctx, has_input, config, in_text, in_other, in_len, in_doc, in_pdf>>

\* process_all_collections: no input JSON, the collection is skipped
SkipCollection ==
    /\ mode = "pipeline" /\ pc = "start" /\ ~ has_input
    /\ pc' = "finished"
    /\ UNCHANGED <<mode, inputs, doc_idx, all_sections, ranked, tfidf_ok, output,
                   raised, result>>

\* process_all_collections loads the config and enters
\* process_collection_documents_enhanced, up to all_sections = []
StartCollection ==
    /\ mode = "pipeline" /\ pc = "start" /\ has_input
    /\ pc' = "docs" /\ doc_idx' = 1 /\ all_sections' = <<>>
    /\ UNCHANGED <<mode, inputs, ranked, tfidf_ok, output, raised, result>>

\* section['document'] = pdf_filename for each section
with_document(sections, pdf_filename) ==
    [k \in 1..Len(sections) |-> [document |-> pdf_filename] @@ sections[k]]

\* variant: the sections of the file whatever happened to it
sections_despite_failure(doc_config) ==
    with_document(get_page_sections_for_ranking(doc_config.pdf, MaxPagesPerDoc),
                  doc_config.filename)

\* process_single_document_enhanced
process_single_document_enhanced(doc_config) ==
    IF doc_config.state = "missing" THEN <<>>
    ELSE IF doc_config.state = "raises" THEN <<>>
    ELSE with_document(get_page_sections_for_ranking(doc_config.pdf, MaxPagesPerDoc),
                       doc_config.filename)

\* one turn of the loop over config["documents"]
ProcessDocument ==
    /\ mode = "pipeline" /\ pc = "docs" /\ doc_idx <= Len(config)
    /\ all_sections' = all_sections \o process_single_document_enhanced(config[doc_idx])
    /\ doc_idx' = doc_idx + 1
    /\ UNCHANGED <<mode, pc, inputs, ranked, tfidf_ok, output, raised, result>>

\* if not all_sections: return
NoSections ==
    /\ mode = "pipeline" /\ pc = "docs" /\ doc_idx > Len(config)
    /\ all_sections = <<>>
    /\ pc' = "finished"
    /\ UNCHANGED <<mode, inputs, doc_idx, all_sections, ranked, tfidf_ok, output,
                   raised, result>>

DefaultMaxLength == 1000

\* create_enhanced_output, from the ranked sections on
enhanced_output(ranked_sections, c) ==
    [written |-> TRUE, by |-> "enhanced",
     metadata |->
        [input_documents |-> {ranked_sections[k].document : k \in 1..Len(ranked_sections)},
         persona |-> c.persona, job_to_be_done |-> c.job,
         total_sections_analyzed |-> Len(ranked_sections)],
     extracted_sections |->
        [k \in 1..Len(ranked_sections) |->
            [document |-> ranked_sections[k].document,
             section_title |-> ranked_sections[k].section_title,
             importance_rank |-> ranked_sections[k].importance_rank,
             page_number |-> ranked_sections[k].page_number]],
     subsection_analysis |->
        [k \in 1..Len(ranked_sections) |->
            [document |-> ranked_sections[k].document,
             refined_text |-> extract_refined_subsection(ranked_sections[k].text,
                                                         DefaultMaxLength, c),
             page_number |-> ranked_sections[k].page_number]]]

\* create_enhanced_output and the write, for the similarities tf (kw: the
\* keyword scores rank_sections computes, which do not depend on tf)
Rank(tf, kw) ==
    /\ ranked' = rank_sections(all_sections, tf, ctx)
    /\ all_sections' = sections_after_rank(all_sections,
                                           scored_and_sorted(all_sections, tf, kw))
    /\ output' = enhanced_output(ranked', ctx)
    /\ pc' = "finished"
    /\ UNCHANGED <<mode, inputs, doc_idx, raised, result>>

AfterLoop ==
    /\ mode = "pipeline" /\ pc = "docs" /\ doc_idx > Len(config)
    /\ all_sections # <<>>

\* the vectorizer and cosine_similarity succeed
CreateOutput ==
    /\ AfterLoop
    /\ \E kw \in {keyword_scores(all_sections, ctx)} :
          \E tf \in [1..Len(all_sections) -> TfidfValues] : Rank(tf, kw)
    /\ tfidf_ok' = TRUE

\* the try block of rank_sections raises: tfidf_similarities stays np.zeros
CreateOutputKeywordOnly ==
    /\ AfterLoop
    /\ Rank(np_zeros(Len(all_sections)), keyword_scores(all_sections, ctx))
    /\ tfidf_ok' = FALSE

\* enhanced processing raises after the pooling; process_all_collections
\* catches it
EnhancedRaises ==
    /\ AfterLoop
    /\ raised' = TRUE /\ pc' = "fallback"
    /\ UNCHANGED <<mode, inputs, doc_idx, all_sections, ranked, tfidf_ok, output,
                   result>>

SimplePages == 3
SimpleExcerptLen == 300

\* utils.parser.extract_text_from_pdf, a module the repository's files do
\* not hold: the pages of the document as they are, with their numbers
extract_text_from_pdf(pdf) ==
    [n \in 1..Len(pdf) |-> [page_number |-> n, text |-> pdf[n]]]

\* the entries of the pages[:3] of one document
entries_of(document, pages) ==
    [idx \in 1..Len(pages) |->
        [document |-> document.filename,
         section_title |-> document.title,
         importance_rank |-> idx,
         page_number |-> pages[idx].page_number,
         refined_text |-> Prefix(pages[idx].text, SimpleExcerptLen)]]

\* the entries the documents give the simple output
RECURSIVE simple_entries(_)
simple_entries(documents) ==
    IF documents = <<>> THEN <<>>
    ELSE (IF Head(documents).state # "ok" THEN <<>>
          ELSE entries_of(Head(documents),
                          Slice(extract_text_from_pdf(Head(documents).pdf),
                                0, SimplePages)))
         \o simple_entries(Tail(documents))

simple_output(documents, entries, c) ==
    [written |-> TRUE, by |-> "simple",
     metadata |->
        [input_documents |-> [k \in 1..Len(documents) |-> documents[k].filename],
         persona |-> c.persona, job_to_be_done |-> c.job],
     extracted_sections |->
        [k \in 1..Len(entries) |->
            [f \in {"document", "section_title", "importance_rank",
                    "page_number"} |-> entries[k][f]]],
     subsection_analysis |->
        [k \in 1..Len(entries) |->
            [f \in {"document", "refined_text", "page_number"} |->
                entries[k][f]]]]

\* process_collection_documents_simple
SimpleFallback ==
    /\ mode = "pipeline" /\ pc = "fallback"
    /\ output' = simple_output(config, simple_entries(config), ctx)
    /\ pc' = "finished"
    /\ UNCHANGED <<mode, inputs, doc_idx, all_sections, ranked, tfidf_ok, raised,
                   result>>

Next ==
    \/ SkipCollection
    \/ StartCollection
    \/ ProcessDocument
    \/ NoSections
    \/ CreateOutput
    \/ CreateOutputKeywordOnly
    \/ EnhancedRaises
    \/ SimpleFallback

Spec == InitPipeline /\ [][Next]_vars


-----------------------------------------------------------------------------
(* ContentRanker.rank_sections on its own: any list of sections, the empty  *)
(* list included                                                            *)

MaxSections == 3

\* sections as get_page_sections_for_ranking and process_single_document_enhanced
\* build them: one that earns bonuses, one that earns only penalties, one
\* with no text under the placeholder title
RankPool ==
    {[document |-> "dinner.pdf", page_number |-> 1, section_title |-> "Tofu Bowl",
      text |-> "Tofu Bowl\nserve the tofu warm.", source |-> "detected_section"],
     [document |-> "breakfast.pdf", page_number |-> 2, section_title |-> "Chicken Wrap",
      text |-> "Chicken Wrap\ngrill the chicken.", source |-> "detected_section"],
     [document |-> "notes.pdf", page_number |-> 1, section_title |-> "Content Section",
      text |-> "", source |-> "page_content"]}

RankInputs == UNION {[1..n -> RankPool] : n \in 0..MaxSections}

InitRank ==
    /\ mode = "rank" /\ pc = "start"
    /\ ctx \in PipelineContexts
    /\ all_sections \in RankInputs
    /\ ranked = <<>> /\ tfidf_ok = FALSE
    /\ IdlePipeline /\ IdleInputs

\* if not document_sections: return []
RankNothing ==
    /\ mode = "rank" /\ pc = "start" /\ all_sections = <<>>
    /\ ranked' = <<>> /\ pc' = "done"
    /\ UNCHANGED <<mode, inputs, doc_idx, all_sections, tfidf_ok, output, raised,
                   result>>

\* rank_sections with the order the sort gives
Ranked(order) ==
    /\ ranked' = ranked_in(all_sections, order)
    /\ all_sections' = sections_after_rank(all_sections, order)
    /\ pc' = "done"
    /\ UNCHANGED <<mode, inputs, doc_idx, output, raised, result>>

\* rank_sections, the vectorizer and cosine_similarity succeed
RankSections ==
    /\ mode = "rank" /\ pc = "start" /\ all_sections # <<>>
    /\ \E kw \in {keyword_scores(all_sections, ctx)} :
          \E tf \in [1..Len(all_sections) -> TfidfValues] :
             \E order \in {scored_and_sorted(all_sections, tf, kw)} : Ranked(order)
    /\ tfidf_ok' = TRUE

\* rank_sections, the try block raises: tfidf_similarities stays np.zeros
RankSectionsKeywordOnly ==
    /\ mode = "rank" /\ pc = "start" /\ all_sections # <<>>
    /\ \E order \in {scored_and_sorted(all_sections,
                                       np_zeros(Len(all_sections)),
                                       keyword_scores(all_sections, ctx))} :
          Ranked(order)
    /\ tfidf_ok' = FALSE

NextRank == RankNothing \/ RankSections \/ RankSectionsKeywordOnly

SpecRank == InitRank /\ [][NextRank]_vars

-----------------------------------------------------------------------------
(* Properties of rank_sections (SpecRank)                                   *)

RankDone == mode = "rank" /\ pc = "done"

\* C1: rank_sections returns as many sections as it was given; the section
\* at position k of the result carries importance_rank k, so the ranks are
\* exactly 1..N, each used once, and every input section is the one of the
\* result at the position of its rank; the empty list gives the empty list
C1_DenseRanks ==
    RankDone =>
        /\ Len(ranked) = Len(all_sections)
        /\ \A k \in 1..Len(ranked) : ranked[k].importance_rank = k
        /\ {ranked[k].importance_rank : k \in 1..Len(ranked)} = 1..Len(all_sections)
        /\ \A i \in 1..Len(all_sections) :
              /\ all_sections[i].importance_rank \in 1..Len(ranked)
              /\ ranked[all_sections[i].importance_rank] = all_sections[i]
        /\ (all_sections = <<>> => ranked = <<>>)

\* three sections were ranked and the sort moved the first of them
C1_Witness ==
    /\ RankDone /\ Len(ranked) = MaxSections
    /\ all_sections[1].importance_rank = MaxSections
    /\ ranked[MaxSections].importance_rank = MaxSections

\* C2: in the list rank_sections returns, a section that comes before
\* another has a relevance_score at least as high
C2_Descending ==
    RankDone =>
        \A i, j \in 1..Len(ranked) :
            i < j => RGeq(ranked[i].relevance_score, ranked[j].relevance_score)

\* the input came in strictly ascending order of score and was turned around
C2_Witness ==
    /\ RankDone /\ Len(ranked) >= 2
    /\ \A i, j \in 1..Len(all_sections) :
          i < j => RGt(all_sections[j].relevance_score,
                       all_sections[i].relevance_score)
    /\ RGt(ranked[1].relevance_score, ranked[Len(ranked)].relevance_score)

\* C4: calculate_enhanced_relevance_score is never negative, whatever the
\* text, the document label, the persona and the job, and every
\* relevance_score rank_sections sorts on is non-negative, with or without
\* the similarities of the vectorizer
C4_NonNegative ==
    mode = "rank" =>
        /\ \A i \in 1..Len(all_sections) :
              RGeq(calculate_enhanced_relevance_score(all_sections[i].text,
                                                      all_sections[i].document, ctx),
                   Zero)
        /\ \A k \in 1..Len(ranked) : RGeq(ranked[k].relevance_score, Zero)

\* ranked without similarities, with a section whose bonuses are outweighed
\* by its penalties and one with no text
C4_Witness ==
    /\ RankDone /\ ~ tfidf_ok
    /\ \E i \in 1..Len(all_sections) :
          /\ weighted_sum10(all_sections[i].text, all_sections[i].document, ctx) < 0
          /\ all_sections[i].relevance_score[1] >= 0
    /\ \E i \in 1..Len(all_sections) : all_sections[i].text = ""

-----------------------------------------------------------------------------
(* Properties of the collection pipeline (Spec)                             *)

EnhancedDone ==
    mode = "pipeline" /\ pc = "finished" /\ output.written /\ output.by = "enhanced"

DocIndex(filename) == CHOOSE k \in 1..Len(config) : config[k].filename = filename

\* the numbers of the lines of a page that hold the title, stripped
TitleLines(title, lines) == {i \in 1..Len(lines) : Strip(lines[i]) = title}

\* section a was detected on an earlier line of the page than section b
HeaderBefore(a, b, lines) ==
    \E i \in TitleLines(a.section_title, lines) :
       \E j \in TitleLines(b.section_title, lines) : i < j

\* section a comes before section b in document, page and header-line order
PooledBefore(a, b) ==
    \/ DocIndex(a.document) < DocIndex(b.document)
    \/ /\ a.document = b.document
       /\ \/ a.page_number < b.page_number
          \/ /\ a.page_number = b.page_number
             /\ HeaderBefore(a, b, SplitOn(config[DocIndex(a.document)].pdf[a.page_number],
                                           "\n"))

\* C3: the sections are pooled in document order of the config, then page
\* order, then header-line order, and of two sections with equal
\* relevance_score the one pooled earlier gets the smaller importance_rank
C3_TiesKeepPoolingOrder ==
    EnhancedDone =>
        \A p, q \in 1..Len(all_sections) :
            p < q =>
              /\ PooledBefore(all_sections[p], all_sections[q])
              /\ (all_sections[p].relevance_score = all_sections[q].relevance_score
                     => all_sections[p].importance_rank
                          < all_sections[q].importance_rank)

\* two sections tie and a section pooled after both outranks them
C3_Witness ==
    /\ EnhancedDone
    /\ \E p, q, r \in 1..Len(all_sections) :
          /\ p < q /\ q < r
          /\ all_sections[p].relevance_score = all_sections[q].relevance_score
          /\ all_sections[r].importance_rank < all_sections[p].importance_rank
          /\ all_sections[p].importance_rank < all_sections[q].importance_rank

\* C9 as stated: a collection that has an input config never finishes
\* without its output file written (by enhanced mode or by the fallback)
C9_OutputAlwaysWritten ==
    (mode = "pipeline" /\ pc = "finished" /\ has_input) => output.written

\* the sections of the readable documents among docs, in order
RECURSIVE ReadablePool(_)
ReadablePool(docs) ==
    IF docs = <<>> THEN <<>>
    ELSE (IF Head(docs).state = "ok"
          THEN with_document(get_page_sections_for_ranking(Head(docs).pdf,
                                                           MaxPagesPerDoc),
                             Head(docs).filename)
          ELSE <<>>)
         \o ReadablePool(Tail(docs))

\* the config without its missing and unreadable documents
WithoutFailing(docs) == SelectSeq(docs, LAMBDA d : d.state = "ok")

\* C10: a missing or unreadable document adds no section and raises nothing
\* in the loop: after every turn all_sections is the concatenation, in
\* order, of the sections of the readable documents handled so far, the
\* same as for the config without the failing documents
C10_FailingDocumentsAddNothing ==
    (mode = "pipeline" /\ pc = "docs") =>
        /\ ~ raised
        /\ all_sections = ReadablePool(SubSeq(config, 1, doc_idx - 1))
        /\ all_sections = ReadablePool(WithoutFailing(SubSeq(config, 1, doc_idx - 1)))

\* the loop is over; a missing or unreadable document came first and the
\* readable document after it gave its sections
C10_Witness ==
    /\ mode = "pipeline" /\ pc = "docs" /\ doc_idx > Len(config)
    /\ Len(config) = 2
    /\ config[1].state # "ok" /\ config[2].state = "ok"
    /\ all_sections # <<>>
    /\ \A k \in 1..Len(all_sections) : all_sections[k].document = config[2].filename

-----------------------------------------------------------------------------
(* ContentRanker.calculate_enhanced_relevance_score on two texts that       *)
(* differ in one word                                                       *)

MaxFiller == 1

\* the text around the word that differs: <<before, after>>
Surroundings ==
    {<<"", "">>,
     <<"Serve the ", " with rice.">>,
     <<"Grilled vegetables and ", " skewers for dinner">>,
     <<"Fish stew or ", ".">>,
     <<"A vegan salmon ", " plate">>}
    \cup {<<Repeat("stir and wait ", 40 * n), " menu">> : n \in 1..MaxFiller}

VegetarianMentions == {"tofu", "Tofu"}
MeatMentions == {"chicken", "CHICKEN"}

ScoreContexts ==
    {[persona |-> p, job |-> j] :
        p \in {"Food Contractor", "Travel Planner", ""},
        j \in {"vegetarian dinner menu", "Prepare a vegetarian dinner menu",
               "Plan a trip", "Find 'Tofu' dishes"}}

ScoreDocuments == {"", "dinner.pdf", "breakfast.pdf"}

InitScore ==
    /\ mode = "score" /\ pc = "start"
    /\ ctx \in ScoreContexts
    /\ \E around \in Surroundings :
          /\ \E w \in VegetarianMentions : in_text = around[1] \o w \o around[2]
          /\ \E w \in MeatMentions : in_other = around[1] \o w \o around[2]
    /\ in_doc \in ScoreDocuments
    /\ in_len = 0 /\ in_pdf = <<>> /\ result = <<>>
    /\ all_sections = <<>> /\ ranked = <<>> /\ tfidf_ok = FALSE
    /\ IdlePipeline

\* calculate_enhanced_relevance_score(in_text, in_doc)
ScoreText ==
    /\ mode = "score" /\ pc = "start"
    /\ result' = <<calculate_enhanced_relevance_score(in_text, in_doc, ctx)>>
    /\ pc' = "scored"
    /\ UNCHANGED <<mode, inputs, doc_idx, all_sections, ranked, tfidf_ok, output,
                   raised>>

\* calculate_enhanced_relevance_score(in_other, in_doc)
ScoreOther ==
    /\ mode = "score" /\ pc = "scored"
    /\ result' = Append(result,
                        calculate_enhanced_relevance_score(in_other, in_doc, ctx))
    /\ pc' = "done"
    /\ UNCHANGED <<mode, inputs, doc_idx, all_sections, ranked, tfidf_ok, output,
                   raised>>

NextScore == ScoreText \/ ScoreOther

SpecScore == InitScore /\ [][NextScore]_vars

\* both texts were scored for the job "vegetarian dinner menu"
VegetarianJobScored ==
    mode = "score" /\ pc = "done" /\ ctx.job = "vegetarian dinner menu"

\* ten times the pre-normalization score of in_text minus that of in_other
Lead10 ==
    weighted_sum10(in_text, in_doc, ctx) - weighted_sum10(in_other, in_doc, ctx)

\* C7, with the weight the code gives the bonus: for the job "vegetarian
\* dinner menu" and two texts that differ only in "tofu" against "chicken",
\* the pre-normalization score of the tofu text exceeds the other by 8.8
\* (0.2 * 4 for the bonus and 8 for the penalty) when the shared text has
\* no vegetarian and no meat indicator; a vegetarian indicator in the
\* shared text takes the 0.8 away, a meat indicator the 8
C7_TofuLeadsBy88Tenths ==
    VegetarianJobScored =>
        Lead10 = B(~ AnyIn(VegetarianTerms, Lower(in_other)), 8)
                 + B(~ AnyIn(MeatTerms, Lower(in_text)), 80)

\* the shared text has no indicator: the lead is 8.8, the chicken text is
\* clamped to 0 and the tofu text is not
C7_Witness ==
    /\ VegetarianJobScored
    /\ ~ AnyIn(VegetarianTerms, Lower(in_other))
    /\ ~ AnyIn(MeatTerms, Lower(in_text))
    /\ Lead10 = 88
    /\ result[2] = Zero /\ RGt(result[1], Zero)

\* C7 as stated: the tofu text leads by at least 12 units
C7_TofuLeadsBy12 == VegetarianJobScored => Lead10 >= 120

-----------------------------------------------------------------------------
(* ContentRanker.extract_refined_subsection on its own, applied to a text   *)
(* and then to its own result                                               *)

MaxParagraphs == 3

\* a paragraph too short to be kept, one that is kept, one of several
\* sentences and one without a full stop, both longer than MinRemaining
Paragraphs ==
    {"Short note.",
     "Serve the tofu bowl warm with rice today.",
     Repeat("Mix the vegetables well. ", 6),
     Repeat("menu dinner recipe ", 8)}

ParagraphSeparators == {"\n\n", "\n"}

\* one paragraph whose only full stop has the index 119, which is 70% of
\* 170, with a tail that takes it beyond 170 characters
SentenceAtSeventy == Repeat("simmer ", 17) \o ". " \o Repeat("stir ", 12)

RefineTexts ==
    {""} \cup
    UNION {{Join(ps, sep) : ps \in [1..n -> Paragraphs], sep \in ParagraphSeparators} :
           n \in 1..MaxParagraphs}
    \cup {" \n" \o p \o "\n\n " : p \in Paragraphs}
    \cup {SentenceAtSeventy}

\* max_length: too small for any paragraph, for no paragraph that is kept,
\* for one kept paragraph, with little and with much room left after it,
\* and the default
RefineLengths == {1, 31, 45, 120, 170, DefaultMaxLength}

InitRefine ==
    /\ mode = "refine" /\ pc = "start"
    /\ ctx \in PipelineContexts
    /\ in_text \in RefineTexts
    /\ in_len \in RefineLengths
    /\ in_other = Idle /\ in_doc = Idle /\ in_pdf = <<>> /\ result = <<>>
    /\ all_sections = <<>> /\ ranked = <<>> /\ tfidf_ok = FALSE
    /\ IdlePipeline

\* extract_refined_subsection(in_text, in_len)
Refine ==
    /\ mode = "refine" /\ pc = "start"
    /\ result' = <<extract_refined_subsection(in_text, in_len, ctx)>>
    /\ pc' = "refined"
    /\ UNCHANGED <<mode, inputs, doc_idx, all_sections, ranked, tfidf_ok, output,
                   raised>>

\* extract_refined_subsection(result of the first call, in_len)
RefineAgain ==
    /\ mode = "refine" /\ pc = "refined"
    /\ result' = Append(result, extract_refined_subsection(result[1], in_len, ctx))
    /\ pc' = "done"
    /\ UNCHANGED <<mode, inputs, doc_idx, all_sections, ranked, tfidf_ok, output,
                   raised>>

NextRefine == Refine \/ RefineAgain

SpecRefine == InitRefine /\ [][NextRefine]_vars

Ellipsis == "..."

\* C5: whatever the text and max_length >= 1, the string
\* extract_refined_subsection returns is at most max_length + 3 characters
\* long (3: the ellipsis marker)
C5_LengthBound ==
    mode = "refine" =>
        \A k \in 1..Len(result) : Len(result[k]) <= in_len + Len(Ellipsis)

\* the bound is met: a kept paragraph, then a hard cut of the next one
C5_Witness ==
    /\ mode = "refine" /\ pc = "refined"
    /\ Len(in_text) > in_len
    /\ Len(result[1]) = in_len + Len(Ellipsis)
    /\ Contains(result[1], "\n\n")
    /\ EndsWith(result[1], Ellipsis)
    /\ ~ StartsWith(in_text, Prefix(result[1], in_len))

\* C6: a text no longer than max_length comes back stripped of surrounding
\* whitespace and otherwise unchanged, and refining the result again with
\* the same max_length returns it as it is
C6_ShortTextStripped ==
    (mode = "refine" /\ Len(in_text) <= in_len) =>
        /\ (Len(result) >= 1 => result[1] = Strip(in_text))
        /\ (Len(result) >= 2 => result[2] = result[1])

\* a text that fits, with whitespace around it and a paragraph too short
\* to be selected, refined twice
C6_Witness ==
    /\ mode = "refine" /\ pc = "done" /\ Len(in_text) <= in_len
    /\ result[1] # in_text
    /\ result[2] = result[1]
    /\ \E p \in Paragraphs : Len(p) <= MinParagraphLen /\ Contains(result[1], p)

-----------------------------------------------------------------------------
(* EnhancedTextExtractor.get_page_sections_for_ranking on its own           *)

MaxPages == 3

\* a header line with eleven lines behind it, none of them a header
LongRecipe == "  Lentil Soup\nrinse well." \o Repeat("\nstir it.", 9) \o "\nserve hot."

\* the texts page.get_text() may give: none, whitespace, lines that are no
\* headers, punctuation, no word longer than two characters, two headers
\* with their lines, a header by pattern, a header with more lines behind
\* it than its section takes
PageTexts ==
    {"", " \n ",
     "mix well.\nadd salt.",
     "!!! ???",
     "..\n!",
     "Tofu Bowl\nserve warm.\nRice Bowl\nserve cold.",
     "Ingredients:\n2 cups rice",
     LongRecipe}

PageLimits == {1, 2, MaxPagesPerDoc}

InitExtract ==
    /\ mode = "extract" /\ pc = "start"
    /\ in_pdf \in UNION {[1..n -> PageTexts] : n \in 0..MaxPages}
    /\ in_len \in PageLimits
    /\ ctx = Idle /\ in_text = Idle /\ in_other = Idle /\ in_doc = Idle
    /\ result = <<>>
    /\ all_sections = <<>> /\ ranked = <<>> /\ tfidf_ok = FALSE
    /\ IdlePipeline

\* get_page_sections_for_ranking(in_pdf, max_pages_per_doc = in_len)
ExtractSections ==
    /\ mode = "extract" /\ pc = "start"
    /\ result' = get_page_sections_for_ranking(in_pdf, in_len)
    /\ pc' = "done"
    /\ UNCHANGED <<mode, inputs, doc_idx, all_sections, ranked, tfidf_ok, output,
                   raised>>

\* fitz.open or page.get_text raises: the exception leaves
\* get_page_sections_for_ranking
ExtractRaises ==
    /\ mode = "extract" /\ pc = "start"
    /\ raised' = TRUE /\ pc' = "raised"
    /\ UNCHANGED <<mode, inputs, doc_idx, all_sections, ranked, tfidf_ok, output,
                   result>>

NextExtract == ExtractSections \/ ExtractRaises

SpecExtract == InitExtract /\ [][NextExtract]_vars

ExtractDone == mode = "extract" /\ pc = "done"

\* the numbers of the pages with text that fall under the page limit
PagesRead ==
    SeqSet(Slice(Ascending({n \in 1..Len(in_pdf) : Strip(in_pdf[n]) # ""}), 0, in_len))

\* no line of the text is classified as a header
NoHeaderLine(lines) == \A i \in 1..Len(lines) : ~ is_section_header(Strip(lines[i]))

SectionsOfPage(n) == SelectSeq(result, LAMBDA section : section.page_number = n)

\* C8: a page with text that is read and has no header line gives exactly
\* one section: source 'page_content', the whole page text, and the title
\* of generate_section_title, which is not empty; a page with a header line
\* gives detected sections only
C8_PageContentFallback ==
    ExtractDone =>
        \A n \in PagesRead :
            IF NoHeaderLine(SplitOn(in_pdf[n], "\n"))
            THEN /\ Len(SectionsOfPage(n)) = 1
                 /\ SectionsOfPage(n)[1].source = "page_content"
                 /\ SectionsOfPage(n)[1].text = in_pdf[n]
                 /\ SectionsOfPage(n)[1].section_title = generate_section_title(in_pdf[n])
                 /\ SectionsOfPage(n)[1].section_title # ""
            ELSE /\ SectionsOfPage(n) # <<>>
                 /\ \A k \in 1..Len(SectionsOfPage(n)) :
                       SectionsOfPage(n)[k].source = "detected_section"

\* a page without header lines that gets the placeholder title, beside a
\* page with header lines
C8_Witness ==
    /\ ExtractDone
    /\ \E n \in PagesRead :
          /\ NoHeaderLine(SplitOn(in_pdf[n], "\n"))
          /\ SectionsOfPage(n)[1].section_title = "Content Section"
    /\ \E n \in PagesRead :
          /\ ~ NoHeaderLine(SplitOn(in_pdf[n], "\n"))
          /\ Len(SectionsOfPage(n)) = 2

-----------------------------------------------------------------------------
(* rank_sections when the vectorizer raises (SpecRank)                      *)

KeywordOnlyDone == RankDone /\ ~ tfidf_ok /\ all_sections # <<>>

\* C11: when the vectorizer or cosine_similarity raises inside
\* rank_sections, nothing is raised to the caller, every relevance_score is
\* 0.6 times the keyword score of the section (no similarity term) plus 0.1
\* for a title that earns the bonus, and the sections are still returned
\* all, sorted in descending order and ranked 1..N
C11_KeywordOnlyOnFailure ==
    KeywordOnlyDone =>
        /\ ~ raised
        /\ Len(ranked) = Len(all_sections)
        /\ \A k \in 1..Len(ranked) :
              /\ ranked[k].relevance_score =
                    RAdd(RMul(calculate_enhanced_relevance_score(
                                  ranked[k].text, ranked[k].document, ctx),
                              <<6, 10>>),
                         title_bonus(ranked[k].section_title))
              /\ ranked[k].importance_rank = k
        /\ \A i, j \in 1..Len(ranked) :
              i < j => RGeq(ranked[i].relevance_score, ranked[j].relevance_score)

\* the vectorizer raised on three sections: one scores on its keywords and
\* its title, one has the title bonus only, one has neither
C11_Witness ==
    /\ KeywordOnlyDone /\ Len(ranked) = MaxSections
    /\ RGt(ranked[1].relevance_score, TitleBonus)
    /\ \E k \in 1..Len(ranked) : ranked[k].relevance_score = TitleBonus
    /\ \E k \in 1..Len(ranked) : ranked[k].relevance_score = Zero

-----------------------------------------------------------------------------
(* The page limit of get_page_sections_for_ranking (SpecExtract)            *)

PageNumbers == {result[k].page_number : k \in 1..Len(result)}

\* C12: the sections get_page_sections_for_ranking(pdf, k) returns come
\* from the first k pages of the document that hold text, each of which
\* gives at least one section, in page order; page_number is the position
\* of the page in the document, counting the pages without text
C12_FirstPagesWithText ==
    ExtractDone =>
        /\ PageNumbers = PagesRead
        /\ Cardinality(PageNumbers) <= in_len
        /\ \A i, j \in 1..Len(result) :
              i < j => result[i].page_number <= result[j].page_number

\* C12 as stated: every section returned has a page_number of at most k
C12_PageNumberWithinLimit ==
    ExtractDone => \A k \in 1..Len(result) : result[k].page_number <= in_len

\* a document that starts with a page without text: a section comes from a
\* page behind the limit, and a page with text is left out
C12_Witness ==
    /\ ExtractDone /\ in_pdf # <<>> /\ Strip(Head(in_pdf)) = ""
    /\ \E k \in 1..Len(result) : result[k].page_number > in_len
    /\ \E n \in 1..Len(in_pdf) : Strip(in_pdf[n]) # "" /\ n \notin PageNumbers

-----------------------------------------------------------------------------
(* The paragraphs of extract_refined_subsection (SpecRefine)                *)

Refined == mode = "refine" /\ pc \in {"refined", "done"}

\* the text has line ends and no blank line
LinesOnly(text) == Contains(text, "\n") /\ ~ Contains(text, "\n\n")

\* the excerpt selected from the lines of the text, each line a paragraph
selected_from_lines(text, max_length, c) ==
    stripped_or_prefix(
        Strip(assemble(SortedReverse(scored_paragraphs(
                           SelectSeq(paragraphs_of(text, "\n"),
                                     LAMBDA p : Len(p) > MinParagraphLen), c)),
                       "", max_length)),
        text, max_length)

\* C13: for a text longer than max_length that has line ends and no blank
\* line, extract_refined_subsection returns what the selection gives when
\* every line is a paragraph of its own
C13_SplitsAtLineEnds ==
    (Refined /\ Len(in_text) > in_len /\ LinesOnly(in_text)) =>
        result[1] = selected_from_lines(in_text, in_len, ctx)

-----------------------------------------------------------------------------
(* Keyword matching in calculate_enhanced_relevance_score (SpecScore)       *)

\* the keywords of a tier in lower case
LowerAll(kws) == {Lower(kw) : kw \in kws}

\* the score when every job keyword counts as soon as its lower-case form
\* occurs in the lower-case text
case_insensitive_score(text, document_name, c) ==
    Rat(Max((persona_score(Lower(text), c) * 3
             + job_points(Lower(text),
                          [high |-> LowerAll(get_enhanced_job_keywords(c).high),
                           medium |-> LowerAll(get_enhanced_job_keywords(c).medium)]) * 5
             + context_bonus(Lower(text), Lower(document_name), c) * 2
             + penalty(Lower(text), Lower(document_name), c) * 10) * 10, 0),
        text_length100(text))

\* C14: every keyword, a quoted part of the job description included, counts
\* as a match exactly when its lower-case form occurs in the lower-case
\* text, so the score is the one of case-insensitive matching
C14_QuotedTermsMatchAnyCase ==
    (mode = "score" /\ pc \in {"scored", "done"}) =>
        result[1] = case_insensitive_score(in_text, in_doc, ctx)

\* the paragraphs of the text that are longer than 30 characters, in text
\* order
KeptParagraphs(text) ==
    SelectSeq(split_paragraphs(text, paragraphs_of(text, "\n\n")),
              LAMBDA p : Len(p) > 30)

\* the positions 1..n arranged by descending score, equal scores in
\* ascending position
DescendingOrder(scores) ==
    CHOOSE order \in [1..Len(scores) -> 1..Len(scores)] :
        \A i, j \in 1..Len(scores) :
            i < j => \/ RGt(scores[order[i]], scores[order[j]])
                     \/ /\ scores[order[i]] = scores[order[j]]
                        /\ order[i] < order[j]

\* the kept paragraphs in the order they are taken
RECURSIVE TakenUpTo(_, _, _)
TakenUpTo(kept, order, k) ==
    IF k = 0 THEN <<>> ELSE Append(TakenUpTo(kept, order, k - 1), kept[order[k]])

TakenIn(kept, order) == TakenUpTo(kept, order, Len(kept))

\* the score of each paragraph, scored as a text without a document name
RECURSIVE ScoresOf(_, _)
ScoresOf(paras, c) ==
    IF paras = <<>> THEN <<>>
    ELSE <<calculate_enhanced_relevance_score(Head(paras), "", c)>>
         \o ScoresOf(Tail(paras), c)

TakenFrom(kept, c) == TakenIn(kept, DescendingOrder(ScoresOf(kept, c)))

Taken(text, c) == TakenFrom(KeptParagraphs(text), c)

\* the first k paragraphs, each followed by a blank line
WholeText(paras, k) ==
    IF k = 0 THEN "" ELSE Join(SubSeq(paras, 1, k), "\n\n") \o "\n\n"

FitsWhole(paras, k, max_length) ==
    Len(WholeText(paras, k - 1)) + Len(paras[k]) <= max_length

\* how many paragraphs are appended whole: those before the first that does
\* not fit
WholeCount(paras, max_length) ==
    MaxOf({k \in 0..Len(paras) : \A j \in 1..k : FitsWhole(paras, j, max_length)})

\* the prefix of the paragraph that does not fit, cut after its last full
\* stop or closed with the ellipsis
CutPrefix(prefix, last_sentence, remaining) ==
    IF beyond_seventy_percent(last_sentence, remaining)
    THEN SubSeq(prefix, 1, last_sentence + 1)
    ELSE prefix \o Ellipsis

\* what the first paragraph that does not fit adds
Overflow(paragraph, remaining) ==
    IF remaining > 100
    THEN CutPrefix(SubSeq(paragraph, 1, remaining),
                   RFind(SubSeq(paragraph, 1, remaining), ".") - 1, remaining)
    ELSE ""

SelectedOf(paras, whole, max_length) ==
    WholeText(paras, whole)
    \o (IF whole < Len(paras)
        THEN Overflow(paras[whole + 1], max_length - Len(WholeText(paras, whole)))
        ELSE "")

Selected(paras, max_length) ==
    SelectedOf(paras, WholeCount(paras, max_length), max_length)

MaxSelected == 3

\* texts of up to MaxSelected paragraphs with blank lines between them, and
\* the paragraph with its full stop at 70%
SelectTexts ==
    UNION {{Join(ps, "\n\n") : ps \in [1..n -> Paragraphs]} : n \in 1..MaxSelected}
    \cup {SentenceAtSeventy}

\* max_length: room for the short kept paragraph only, for a cut of a long
\* paragraph, for a long paragraph or the short one and a cut
SelectLengths == {45, 120, 170}

InitSelect ==
    /\ mode = "refine" /\ pc = "start"
    /\ ctx \in PipelineContexts
    /\ in_text \in SelectTexts
    /\ in_len \in SelectLengths
    /\ in_other = Idle /\ in_doc = Idle /\ in_pdf = <<>> /\ result = <<>>
    /\ all_sections = <<>> /\ ranked = <<>> /\ tfidf_ok = FALSE
    /\ IdlePipeline

\* one call of extract_refined_subsection on each of these texts
SpecSelect == InitSelect /\ [][Refine]_vars

LongTextRefined == Refined /\ Len(in_text) > in_len

\* C15: for a text longer than max_length, the paragraphs longer than 30
\* characters are taken by descending score, equal scores in text order, and
\* appended whole, each with a blank line, as long as they fit; the first
\* that does not fit ends the selection: with more than 100 characters
\* remaining, its prefix of that length is appended, cut after its last
\* full stop when the index of that full stop is above remaining * 0.7 as
\* the code computes it, and otherwise whole with '...'; with 100 or fewer
\* remaining nothing is appended; no paragraph behind it is appended. The
\* excerpt returned is this selection, stripped (the text[:max_length] +
\* '...' when it is empty)
C15_SelectionStopsAtFirstOverflow ==
    LongTextRefined =>
        \E paras \in {Taken(in_text, ctx)} :
            result[1] = stripped_or_prefix(Strip(Selected(paras, in_len)),
                                           in_text, in_len)

\* three kept paragraphs: the first is appended whole, the second does not
\* fit and is cut after a full stop, the third is left out
C15_Witness ==
    /\ LongTextRefined
    /\ Len(KeptParagraphs(in_text)) = 3
    /\ WholeCount(Taken(in_text, ctx), in_len) = 1
    /\ Contains(result[1], "\n\n")
    /\ EndsWith(result[1], ".") /\ ~ EndsWith(result[1], Ellipsis)
    /\ ~ Contains(result[1], Taken(in_text, ctx)[2])
    /\ ~ Contains(result[1], Prefix(Taken(in_text, ctx)[3], MinParagraphLen))

-----------------------------------------------------------------------------
(* The sections detect_sections cuts out of a page (SpecExtract)            *)

\* the numbers of the lines that are headers once stripped
HeaderLineNumbers(lines) ==
    {i \in 1..Len(lines) : is_section_header(Strip(lines[i]))}

\* the k-th smallest number of a set
NthSmallest(S, k) == CHOOSE x \in S : Cardinality({y \in S : y < x}) = k - 1

\* the lines from number h on, the header and at most `following` lines
\* behind it, joined by line ends
HeaderWithFollowing(lines, h, following) ==
    Join(SubSeq(lines, h, Min(h + following, Len(lines))), "\n")

\* the sections of page n are those of its header lines, in line order,
\* each titled with its stripped header line and holding the header line
\* and the given number of lines behind it
SectionsAreWindows(lines, heads, sections, following) ==
    /\ Len(sections) = Cardinality(heads)
    /\ \A k \in 1..Len(sections) :
          /\ sections[k].section_title = Strip(lines[NthSmallest(heads, k)])
          /\ sections[k].text =
                HeaderWithFollowing(lines, NthSmallest(heads, k), following)
          /\ sections[k].source = "detected_section"

PageWindows(n, following) ==
    \E lines \in {SplitOn(in_pdf[n], "\n")} :
       \E heads \in {HeaderLineNumbers(lines)} :
          heads # {} => SectionsAreWindows(lines, heads, SectionsOfPage(n), following)

-----------------------------------------------------------------------------
(* What rank_sections and the refiner leave alone (Spec)                    *)

RankFields == {"relevance_score", "importance_rank"}

\* the section is the pooled one with the two fields of the ranking added
SameButRanked(section, pooled) ==
    /\ DOMAIN section = DOMAIN pooled \cup RankFields
    /\ \A field \in DOMAIN pooled : section[field] = pooled[field]

\* the caller's list and the list returned against the list handed to
\* rank_sections: importance_rank gives each section its one place in the
\* list returned
RankedFrom(pool, sections, ranked_sections) ==
    /\ Len(sections) = Len(pool) /\ Len(ranked_sections) = Len(pool)
    /\ \A i \in 1..Len(pool) :
          /\ SameButRanked(sections[i], pool[i])
          /\ sections[i].importance_rank \in 1..Len(pool)
          /\ ranked_sections[sections[i].importance_rank] = sections[i]
    /\ \A i, j \in 1..Len(pool) :
          sections[i].importance_rank = sections[j].importance_rank => i = j

\* create_enhanced_output ranks the pooled sections and writes the output
RankingStep ==
    /\ mode = "pipeline" /\ pc = "docs" /\ pc' = "finished"
    /\ output'.written /\ output'.by = "enhanced"

\* the excerpts of the output belong to the sections of the list returned
ExcerptsOf(ranked_sections, analysis) ==
    /\ Len(analysis) = Len(ranked_sections)
    /\ \A k \in 1..Len(ranked_sections) :
          /\ analysis[k].document = ranked_sections[k].document
          /\ analysis[k].page_number = ranked_sections[k].page_number

\* C17: the list rank_sections returns holds the sections it was given,
\* each once, none added or dropped; every section has its document,
\* page_number, section_title, text and source as before and the fields
\* relevance_score and importance_rank in addition, in the list returned
\* and in the list of the caller; this is so after the excerpts were taken
\* from the texts and the output was written
C17_RankingOnlyAddsScoreAndRank ==
    [][RankingStep =>
          /\ RankedFrom(all_sections, all_sections', ranked')
          /\ ExcerptsOf(ranked', output'.subsection_analysis)]_vars

\* the sections of two documents were ranked, the sort moved one of the
\* second document to the front, and the excerpts were taken
C17_Witness ==
    /\ EnhancedDone /\ Len(ranked) >= 3
    /\ ranked[1].document # all_sections[1].document
    /\ \E k \in 1..Len(ranked) : ranked[k].text # Lower(ranked[k].text)
    /\ \A k \in 1..Len(ranked) :
          output.subsection_analysis[k].refined_text = Strip(ranked[k].text)

=============================================================================
